---- MODULE Spec2Model ----
(***************************************************************************)
(* Dual numbers for forward-mode automatic differentiation                 *)
(* (dual_autodiff_x/dual.pyx, class Dual).                                 *)
(*                                                                         *)
(* A Dual object is a heap cell with the two fields real and dual.  The    *)
(* fields hold Python numbers: an int (exact, unbounded) or a float.  A    *)
(* Python number is modelled as a tagged rational [t, n, d] in lowest      *)
(* terms.  A float is a binary floating-point number with a Prec-bit       *)
(* significand, rounded to nearest, ties to even, as IEEE-754 binary64     *)
(* does with 53 bits; the exponent range is not bounded, so overflow,      *)
(* underflow, infinities and NaN lie outside the model.                    *)
(* An exception raised by an expression is the value                       *)
(* [t |-> "raise", exc |-> <type>], which every operator propagates from   *)
(* its operands, left to right, as Python evaluates them.                  *)
(***************************************************************************)
EXTENDS Integers, Sequences, FiniteSets, TLC

(***************************************************************************)
(* Bounds of the model.                                                    *)
(***************************************************************************)
\* significand bits of a float (53 in CPython; scaled down)
Prec == 3
\* number of lock-step steps of the in-place / non-mutating comparison
MaxSteps == 2

(***************************************************************************)
(* Integer helpers.                                                        *)
(***************************************************************************)
Abs(i) == IF i < 0 THEN -i ELSE i

RECURSIVE GCD(_, _)
GCD(a, b) == IF b = 0 THEN a ELSE GCD(b, a % b)

RECURSIVE IPow(_, _)
IPow(b, e) == IF e = 0 THEN 1 ELSE b * IPow(b, e - 1)

(***************************************************************************)
(* Python numbers.                                                         *)
(***************************************************************************)
\* the int i
PyInt(i) == [t |-> "int", n |-> i, d |-> 1]

\* the rational n/d (d # 0) in lowest terms with a positive denominator
Frac(n, d) ==
    LET g == GCD(Abs(n), Abs(d))
        s == IF d < 0 THEN -1 ELSE 1
    IN  [n |-> (s * n) \div g, d |-> (s * d) \div g]

\* a float whose value is exactly n/d (the caller guarantees it is
\* representable)
PyFloat(n, d) == [t |-> "float", n |-> Frac(n, d).n, d |-> Frac(n, d).d]

\* round the positive rational n/d to Prec significant bits: scale the
\* significand into [2^(Prec-1), 2^Prec), round it to the nearest integer
\* (ties to even) and scale back.  num/den is the scaled significand and
\* up/down the power of two it has been divided/multiplied by.
RECURSIVE RoundPos(_, _, _, _)
RoundPos(num, den, up, down) ==
    IF num >= IPow(2, Prec) * den THEN RoundPos(num, 2 * den, 2 * up, down)
    ELSE IF num < IPow(2, Prec - 1) * den THEN RoundPos(2 * num, den, up, 2 * down)
    ELSE LET q == num \div den
             r == num % den
             m == IF 2 * r < den THEN q
                  ELSE IF 2 * r > den THEN q + 1
                  ELSE IF q % 2 = 0 THEN q ELSE q + 1
         IN  Frac(m * up, down)

\* the float nearest to the rational n/d (d # 0)
Round(n, d) ==
    LET f == Frac(n, d)
        p == RoundPos(Abs(f.n), f.d, 1, 1)
    IN  IF f.n = 0 THEN [t |-> "float", n |-> 0, d |-> 1]
        ELSE [t |-> "float", n |-> (IF f.n < 0 THEN -p.n ELSE p.n), d |-> p.d]

\* a raised exception, as the value of the expression that raised it
Raise(e) == [t |-> "raise", exc |-> e]
Raised(v) == v.t = "raise"

\* isinstance(v, int)
IsInt(v) == v.t = "int"

\* float(v): the conversion Python applies to an int operand of a mixed or
\* float-valued operation
ToFloat(v) == IF IsInt(v) THEN Round(v.n, 1) ELSE v

(***************************************************************************)
(* Python arithmetic on numbers (the operators the methods of Dual apply   *)
(* to the fields).                                                         *)
(***************************************************************************)
\* -x
PyNeg(x) ==
    IF Raised(x) THEN x ELSE [x EXCEPT !.n = -x.n]

\* x + y
PyAdd(x, y) ==
    IF Raised(x) THEN x ELSE IF Raised(y) THEN y
    ELSE IF IsInt(x) /\ IsInt(y) THEN PyInt(x.n + y.n)
    ELSE LET a == ToFloat(x)
             b == ToFloat(y)
         IN  Round(a.n * b.d + b.n * a.d, a.d * b.d)

\* x - y
PySub(x, y) ==
    IF Raised(x) THEN x ELSE IF Raised(y) THEN y
    ELSE IF IsInt(x) /\ IsInt(y) THEN PyInt(x.n - y.n)
    ELSE LET a == ToFloat(x)
             b == ToFloat(y)
         IN  Round(a.n * b.d - b.n * a.d, a.d * b.d)

\* x * y
PyMul(x, y) ==
    IF Raised(x) THEN x ELSE IF Raised(y) THEN y
    ELSE IF IsInt(x) /\ IsInt(y) THEN PyInt(x.n * y.n)
    ELSE LET a == ToFloat(x)
             b == ToFloat(y)
         IN  Round(a.n * b.n, a.d * b.d)

\* x / y (true division: the result is always a float)
PyTrueDiv(x, y) ==
    IF Raised(x) THEN x ELSE IF Raised(y) THEN y
    ELSE IF y.n = 0 THEN Raise("ZeroDivisionError")
    ELSE IF IsInt(x) /\ IsInt(y) THEN Round(x.n, y.n)
    ELSE LET a == ToFloat(x)
             b == ToFloat(y)
         IN  Round(a.n * b.d, a.d * b.n)

\* float ** float for an integer-valued exponent e
FloatPow(b, e) ==
    IF e.n = 0 THEN PyFloat(1, 1)
    ELSE IF b.n = 0 /\ e.n < 0 THEN Raise("ZeroDivisionError")
    ELSE IF e.n > 0 THEN Round(IPow(b.n, e.n), IPow(b.d, e.n))
    ELSE Round(IPow(b.d, -e.n), IPow(b.n, -e.n))

\* x ** y for an integer-valued exponent y (an int, or a float such as 2.0)
PyPow(x, y) ==
    IF Raised(x) THEN x ELSE IF Raised(y) THEN y
    ELSE IF IsInt(x) /\ IsInt(y) /\ y.n >= 0 THEN PyInt(IPow(x.n, y.n))
    ELSE FloatPow(ToFloat(x), ToFloat(y))

\* x == y (numeric comparison: 2 == 2.0)
PyEq(x, y) == x.n * y.d = y.n * x.d

\* x <= y
PyLe(x, y) == x.n * y.d <= y.n * x.d

\* math.log(a): a math domain error (ValueError) unless a > 0; otherwise a
\* float whose value is not rational, kept as the term log(a)
MathLog(a) ==
    IF a.n <= 0 THEN Raise("ValueError") ELSE [t |-> "log", of |-> a]

\* math.sin(a), math.cos(a), math.tan(a), math.exp(a): the float the
\* function yields for float(a), kept as a term
MathSin(a) == [t |-> "sin", of |-> ToFloat(a)]
MathCos(a) == [t |-> "cos", of |-> ToFloat(a)]
MathTan(a) == [t |-> "tan", of |-> ToFloat(a)]
MathExp(a) == [t |-> "exp", of |-> ToFloat(a)]

\* l op r where an operand is the value of a math function: the float the
\* operator yields, kept as a term
FloatTerm(op, l, r) == [t |-> op, l |-> l, r |-> r]

\* math.isclose(math.cos(a), 0, abs_tol=1e-9), that is |cos(a)| <= 1e-9.
\* 51819/32989 < pi/2 < 52174/33215 are neighbouring convergents of pi/2,
\* less than 9.2e-10 apart, so |cos(a)| <= 1e-9 when |a| lies between
\* them; an a with |a| < 4 outside them and a denominator below 2^13 is
\* more than 1e-9 away from pi/2, and |cos(a)| > 1e-9.
CosIsCloseToZero(a) ==
    LET below == [n |-> 51819, d |-> 32989]
        above == [n |-> 52174, d |-> 33215]
    IN  /\ below.n * a.d <= Abs(a.n) * below.d
        /\ Abs(a.n) * above.d <= above.n * a.d

(***************************************************************************)
(* class Dual.  A method takes the heap h (a sequence of objects, an       *)
(* object's id being its index), the id self of its receiver and, when     *)
(* it has one, its argument: a reference [t |-> "ref", id |-> i] to a      *)
(* Dual or a Python number.  It yields the heap after the call and what    *)
(* the call returned or raised.                                            *)
(***************************************************************************)
Ref(i) == [t |-> "ref", id |-> i]
Bool(b) == [t |-> "bool", b |-> b]

\* isinstance(other, Dual)
IsDual(other) == other.t = "ref"

\* a call that raises exc and leaves the heap as it found it
Throw(h, exc) == [heap |-> h, ret |-> exc]

\* Dual(real, dual): evaluate the two arguments, then allocate the object
\* and set its fields
__init__(h, real, dual) ==
    IF Raised(real) THEN Throw(h, real)
    ELSE IF Raised(dual) THEN Throw(h, dual)
    ELSE [heap |-> Append(h, [real |-> real, dual |-> dual]),
          ret  |-> Ref(Len(h) + 1)]


\* __add__ with the scalar added to the dual part as well
add_scalar_to_both(h, self, other) ==
    IF IsDual(other)
    THEN __init__(h, PyAdd(h[self].real, h[other.id].real),
                     PyAdd(h[self].dual, h[other.id].dual))
    ELSE __init__(h, PyAdd(h[self].real, other), PyAdd(h[self].dual, other))

__add__(h, self, other) ==
    IF IsDual(other)
    THEN __init__(h, PyAdd(h[self].real, h[other.id].real),
                     PyAdd(h[self].dual, h[other.id].dual))
    ELSE __init__(h, PyAdd(h[self].real, other), h[self].dual)

__radd__(h, self, other) == __add__(h, self, other)

__iadd__(h, self, other) ==
    IF IsDual(other)
    THEN LET h1 == [h EXCEPT ![self].real = PyAdd(h[self].real, h[other.id].real)]
             h2 == [h1 EXCEPT ![self].dual = PyAdd(h1[self].dual, h1[other.id].dual)]
         IN  [heap |-> h2, ret |-> Ref(self)]
    ELSE [heap |-> [h EXCEPT ![self].real = PyAdd(h[self].real, other)],
          ret  |-> Ref(self)]

__sub__(h, self, other) ==
    IF IsDual(other)
    THEN __init__(h, PySub(h[self].real, h[other.id].real),
                     PySub(h[self].dual, h[other.id].dual))
    ELSE __init__(h, PySub(h[self].real, other), h[self].dual)

__rsub__(h, self, other) ==
    __init__(h, PySub(other, h[self].real), PyNeg(h[self].dual))

__isub__(h, self, other) ==
    IF IsDual(other)
    THEN LET h1 == [h EXCEPT ![self].real = PySub(h[self].real, h[other.id].real)]
             h2 == [h1 EXCEPT ![self].dual = PySub(h1[self].dual, h1[other.id].dual)]
         IN  [heap |-> h2, ret |-> Ref(self)]
    ELSE [heap |-> [h EXCEPT ![self].real = PySub(h[self].real, other)],
          ret  |-> Ref(self)]


\* __mul__ with the product rule taking the dual part of other twice
mul_wrong_product_rule(h, self, other) ==
    IF IsDual(other)
    THEN LET real == PyMul(h[self].real, h[other.id].real)
             dual == PyAdd(PyMul(h[self].real, h[other.id].dual),
                           PyMul(h[self].dual, h[other.id].dual))
         IN  __init__(h, real, dual)
    ELSE __init__(h, PyMul(h[self].real, other), PyMul(h[self].dual, other))

__mul__(h, self, other) ==
    IF IsDual(other)
    THEN LET real == PyMul(h[self].real, h[other.id].real)
             dual == PyAdd(PyMul(h[self].real, h[other.id].dual),
                           PyMul(h[self].dual, h[other.id].real))
         IN  __init__(h, real, dual)
    ELSE __init__(h, PyMul(h[self].real, other), PyMul(h[self].dual, other))

__rmul__(h, self, other) == __mul__(h, self, other)


\* __imul__ without the snapshot: the new dual part is computed from the
\* real part that has already been overwritten
imul_no_snapshot(h, self, other) ==
    IF IsDual(other)
    THEN LET h1 == [h EXCEPT ![self].real = PyMul(h[self].real, h[other.id].real)]
             h2 == [h1 EXCEPT ![self].dual =
                        PyAdd(PyMul(h1[self].real, h1[other.id].dual),
                              PyMul(h1[self].dual, h1[other.id].real))]
         IN  [heap |-> h2, ret |-> Ref(self)]
    ELSE LET h1 == [h EXCEPT ![self].real = PyMul(h[self].real, other)]
             h2 == [h1 EXCEPT ![self].dual = PyMul(h1[self].dual, other)]
         IN  [heap |-> h2, ret |-> Ref(self)]

__imul__(h, self, other) ==
    IF IsDual(other)
    THEN LET new_real == PyMul(h[self].real, h[other.id].real)
             new_dual == PyAdd(PyMul(h[self].real, h[other.id].dual),
                               PyMul(h[self].dual, h[other.id].real))
             h1 == [h EXCEPT ![self].real = new_real]
             h2 == [h1 EXCEPT ![self].dual = new_dual]
         IN  [heap |-> h2, ret |-> Ref(self)]
    ELSE LET h1 == [h EXCEPT ![self].real = PyMul(h[self].real, other)]
             h2 == [h1 EXCEPT ![self].dual = PyMul(h1[self].dual, other)]
         IN  [heap |-> h2, ret |-> Ref(self)]


\* __truediv__ with the quotient rule's numerator added instead of
\* subtracted
truediv_wrong_sign(h, self, other) ==
    IF IsDual(other)
    THEN IF PyEq(h[other.id].real, PyInt(0))
         THEN Throw(h, Raise("ZeroDivisionError"))
         ELSE LET real == PyTrueDiv(h[self].real, h[other.id].real)
                  dual == PyTrueDiv(
                              PyAdd(PyMul(h[self].dual, h[other.id].real),
                                    PyMul(h[self].real, h[other.id].dual)),
                              PyPow(h[other.id].real, PyInt(2)))
              IN  __init__(h, real, dual)
    ELSE IF PyEq(other, PyInt(0))
         THEN Throw(h, Raise("ZeroDivisionError"))
         ELSE __init__(h, PyTrueDiv(h[self].real, other),
                          PyTrueDiv(h[self].dual, other))

__truediv__(h, self, other) ==
    IF IsDual(other)
    THEN IF PyEq(h[other.id].real, PyInt(0))
         THEN Throw(h, Raise("ZeroDivisionError"))
         ELSE LET real == PyTrueDiv(h[self].real, h[other.id].real)
                  dual == PyTrueDiv(
                              PySub(PyMul(h[self].dual, h[other.id].real),
                                    PyMul(h[self].real, h[other.id].dual)),
                              PyPow(h[other.id].real, PyInt(2)))
              IN  __init__(h, real, dual)
    ELSE IF PyEq(other, PyInt(0))
         THEN Throw(h, Raise("ZeroDivisionError"))
         ELSE __init__(h, PyTrueDiv(h[self].real, other),
                          PyTrueDiv(h[self].dual, other))

__rtruediv__(h, self, other) ==
    IF PyEq(h[self].real, PyInt(0))
    THEN Throw(h, Raise("ZeroDivisionError"))
    ELSE LET real == PyTrueDiv(other, h[self].real)
             dual == PyTrueDiv(PyMul(PyNeg(other), h[self].dual),
                               PyPow(h[self].real, PyInt(2)))
         IN  __init__(h, real, dual)

\* __itruediv__ that reads the fields of other again after it has
\* overwritten self.real, which differs when other is self
itruediv_rereads_operand(h, self, other) ==
    IF IsDual(other)
    THEN IF PyEq(h[other.id].real, PyInt(0))
         THEN Throw(h, Raise("ZeroDivisionError"))
         ELSE LET real_div == PyTrueDiv(h[self].real, h[other.id].real)
                  h1 == [h EXCEPT ![self].real = real_div]
                  dual_div == PyTrueDiv(
                                  PySub(PyMul(h[self].dual, h1[other.id].real),
                                        PyMul(h[self].real, h1[other.id].dual)),
                                  PyPow(h1[other.id].real, PyInt(2)))
                  h2 == [h1 EXCEPT ![self].dual = dual_div]
              IN  [heap |-> h2, ret |-> Ref(self)]
    ELSE IF PyEq(other, PyInt(0))
         THEN Throw(h, Raise("ZeroDivisionError"))
         ELSE LET h1 == [h EXCEPT ![self].real = PyTrueDiv(h[self].real, other)]
                  h2 == [h1 EXCEPT ![self].dual = PyTrueDiv(h1[self].dual, other)]
              IN  [heap |-> h2, ret |-> Ref(self)]

__itruediv__(h, self, other) ==
    IF IsDual(other)
    THEN IF PyEq(h[other.id].real, PyInt(0))
         THEN Throw(h, Raise("ZeroDivisionError"))
         ELSE LET real_div == PyTrueDiv(h[self].real, h[other.id].real)
                  dual_div == PyTrueDiv(
                                  PySub(PyMul(h[self].dual, h[other.id].real),
                                        PyMul(h[self].real, h[other.id].dual)),
                                  PyPow(h[other.id].real, PyInt(2)))
                  h1 == [h EXCEPT ![self].real = real_div]
                  h2 == [h1 EXCEPT ![self].dual = dual_div]
              IN  [heap |-> h2, ret |-> Ref(self)]
    ELSE IF PyEq(other, PyInt(0))
         THEN Throw(h, Raise("ZeroDivisionError"))
         ELSE LET h1 == [h EXCEPT ![self].real = PyTrueDiv(h[self].real, other)]
                  h2 == [h1 EXCEPT ![self].dual = PyTrueDiv(h1[self].dual, other)]
              IN  [heap |-> h2, ret |-> Ref(self)]


\* inverse without the negation of the dual part
inverse_no_negation(h, self) ==
    IF PyEq(h[self].real, PyInt(0))
    THEN Throw(h, Raise("ZeroDivisionError"))
    ELSE LET real_inv == PyTrueDiv(PyInt(1), h[self].real)
             dual_inv == PyTrueDiv(h[self].dual,
                                   PyPow(h[self].real, PyInt(2)))
         IN  __init__(h, real_inv, dual_inv)

inverse(h, self) ==
    IF PyEq(h[self].real, PyInt(0))
    THEN Throw(h, Raise("ZeroDivisionError"))
    ELSE LET real_inv == PyTrueDiv(PyInt(1), h[self].real)
             dual_inv == PyTrueDiv(PyNeg(h[self].dual),
                                   PyPow(h[self].real, PyInt(2)))
         IN  __init__(h, real_inv, dual_inv)

\* __neg__ that negates the real part only
neg_real_only(h, self) == __init__(h, PyNeg(h[self].real), h[self].dual)

__neg__(h, self) == __init__(h, PyNeg(h[self].real), PyNeg(h[self].dual))


sin(h, self) ==
    __init__(h, MathSin(h[self].real),
                FloatTerm("*", h[self].dual, MathCos(h[self].real)))

cos(h, self) ==
    __init__(h, MathCos(h[self].real),
                FloatTerm("*", PyNeg(h[self].dual), MathSin(h[self].real)))

tan(h, self) ==
    IF CosIsCloseToZero(h[self].real)
    THEN Throw(h, Raise("ZeroDivisionError"))
    ELSE __init__(h, MathTan(h[self].real),
                     FloatTerm("*", h[self].dual,
                               FloatTerm("/", PyInt(1),
                                         FloatTerm("**", MathCos(h[self].real),
                                                   PyInt(2)))))

exp(h, self) ==
    __init__(h, MathExp(h[self].real),
                FloatTerm("*", h[self].dual, MathExp(h[self].real)))


\* log with the guard a < 0 in place of a <= 0
log_strict_guard(h, self) ==
    IF ~PyEq(h[self].real, PyInt(0)) /\ PyLe(h[self].real, PyInt(0))
    THEN Throw(h, Raise("ZeroDivisionError"))
    ELSE __init__(h, MathLog(h[self].real),
                     PyTrueDiv(h[self].dual, h[self].real))

log(h, self) ==
    IF PyLe(h[self].real, PyInt(0))
    THEN Throw(h, Raise("ZeroDivisionError"))
    ELSE __init__(h, MathLog(h[self].real),
                     PyTrueDiv(h[self].dual, h[self].real))

\* pow that stores the power in its receiver instead of a new dual number
pow_into_receiver(h, self, n) ==
    IF ~IsInt(n)
    THEN Throw(h, Raise("TypeError"))
    ELSE IF PyEq(h[self].real, PyInt(0)) /\ n.n < 0
    THEN Throw(h, Raise("ZeroDivisionError"))
    ELSE LET real_part == PyPow(h[self].real, n)
             dual_part == PyMul(PyMul(n, PyPow(h[self].real, PySub(n, PyInt(1)))),
                                h[self].dual)
         IN  IF Raised(real_part) THEN Throw(h, real_part)
             ELSE IF Raised(dual_part) THEN Throw(h, dual_part)
             ELSE [heap |-> [h EXCEPT ![self] = [real |-> real_part,
                                                 dual |-> dual_part]],
                   ret  |-> Ref(self)]

pow(h, self, n) ==
    IF ~IsInt(n)
    THEN Throw(h, Raise("TypeError"))
    ELSE IF PyEq(h[self].real, PyInt(0)) /\ n.n < 0
    THEN Throw(h, Raise("ZeroDivisionError"))
    ELSE LET real_part == PyPow(h[self].real, n)
             dual_part == PyMul(PyMul(n, PyPow(h[self].real, PySub(n, PyInt(1)))),
                                h[self].dual)
         IN  __init__(h, real_part, dual_part)


\* __ipow__ without the temporaries: the real part is overwritten before
\* the dual part is computed
ipow_no_temporaries(h, self, other) ==
    IF IsDual(other)
    THEN Throw(h, Raise("TypeError"))
    ELSE LET real_pow == PyPow(h[self].real, other)
             dual_pow == PyMul(PyMul(other, PyPow(h[self].real, PySub(other, PyInt(1)))),
                               h[self].dual)
             h1 == [h EXCEPT ![self].real = real_pow]
             h2 == [h1 EXCEPT ![self].dual = dual_pow]
         IN  IF Raised(real_pow) THEN Throw(h, real_pow)
             ELSE IF Raised(dual_pow) THEN Throw(h1, dual_pow)
             ELSE [heap |-> h2, ret |-> Ref(self)]

__ipow__(h, self, other) ==
    IF IsDual(other)
    THEN Throw(h, Raise("TypeError"))
    ELSE LET real_pow == PyPow(h[self].real, other)
             dual_pow == PyMul(PyMul(other, PyPow(h[self].real, PySub(other, PyInt(1)))),
                               h[self].dual)
         IN  IF Raised(real_pow) THEN Throw(h, real_pow)
             ELSE IF Raised(dual_pow) THEN Throw(h, dual_pow)
             ELSE LET h1 == [h EXCEPT ![self].real = real_pow]
                      h2 == [h1 EXCEPT ![self].dual = dual_pow]
                  IN  [heap |-> h2, ret |-> Ref(self)]


\* __eq__ that compares only the real part with a scalar
eq_ignores_dual(h, self, other) ==
    IF IsDual(other)
    THEN [heap |-> h,
          ret  |-> Bool(PyEq(h[self].real, h[other.id].real)
                        /\ PyEq(h[self].dual, h[other.id].dual))]
    ELSE [heap |-> h, ret |-> Bool(PyEq(h[self].real, other))]

__eq__(h, self, other) ==
    IF IsDual(other)
    THEN [heap |-> h,
          ret  |-> Bool(PyEq(h[self].real, h[other.id].real)
                        /\ PyEq(h[self].dual, h[other.id].dual))]
    ELSE [heap |-> h,
          ret  |-> Bool(PyEq(h[self].real, other) /\ PyEq(h[self].dual, PyInt(0)))]

(***************************************************************************)
(* The values the calls are made on.                                       *)
(***************************************************************************)
\* real parts and dual parts of the dual numbers x and y
RealVals == {PyInt(0), PyInt(1), PyInt(2), PyInt(3), PyFloat(0, 1), PyFloat(-3, 2)}
DualVals == {PyInt(0), PyInt(1), PyInt(2), PyFloat(1, 2)}
\* scalar operands
Scalars == {PyInt(0), PyInt(2), PyInt(3), PyFloat(0, 1), PyFloat(1, 2)}
\* exponents that are numbers: ints, and the float 2.0
Exponents == {PyInt(-1), PyInt(0), PyInt(1), PyInt(2), PyInt(3), PyFloat(2, 1)}

None == [t |-> "none"]

(***************************************************************************)
(* State.                                                                  *)
(*   heap   the Dual objects; x is object 1 and y object 2                 *)
(*   old    the heap before the last call                                  *)
(*   call   the last call: the method, its receiver and its argument       *)
(*   ret    what the last call returned or raised                          *)
(*   pc     position of the calling program                                *)
(*   locals the variables of the calling program                           *)
(*   steps  the number of steps the calling program has made               *)
(***************************************************************************)
VARIABLES heap, old, call, ret, pc, locals, steps

vars == <<heap, old, call, ret, pc, locals, steps>>

Objects == {[real |-> a, dual |-> b] : a \in RealVals, b \in DualVals}

\* x = Dual(a, b); y = Dual(c, d)
Init ==
    /\ heap \in {<<x, y>> : x \in Objects, y \in Objects}
    /\ old = heap
    /\ call = [op |-> "none", self |-> 0, other |-> None]
    /\ ret = None
    /\ pc = "start"
    /\ locals = [x |-> Ref(1), y |-> Ref(2)]
    /\ steps = 0

\* the receiver, and the arguments that are Dual objects
Ids == DOMAIN heap
Refs == {Ref(i) : i \in Ids}

\* one call of a method, whose outcome is out
Do(op, self, other, out) ==
    /\ pc = "start"
    /\ old' = heap
    /\ call' = [op |-> op, self |-> self, other |-> other]
    /\ heap' = out.heap
    /\ ret' = out.ret
    /\ pc' = "done"
    /\ steps' = steps + 1
    /\ UNCHANGED locals

Add == \E s \in Ids, o \in Refs \cup Scalars : Do("__add__", s, o, __add__(heap, s, o))
Radd == \E s \in Ids, o \in Scalars : Do("__radd__", s, o, __radd__(heap, s, o))
Iadd == \E s \in Ids, o \in Refs \cup Scalars : Do("__iadd__", s, o, __iadd__(heap, s, o))
Sub == \E s \in Ids, o \in Refs \cup Scalars : Do("__sub__", s, o, __sub__(heap, s, o))
Rsub == \E s \in Ids, o \in Scalars : Do("__rsub__", s, o, __rsub__(heap, s, o))
Isub == \E s \in Ids, o \in Refs \cup Scalars : Do("__isub__", s, o, __isub__(heap, s, o))
Mul == \E s \in Ids, o \in Refs \cup Scalars : Do("__mul__", s, o, __mul__(heap, s, o))
Rmul == \E s \in Ids, o \in Scalars : Do("__rmul__", s, o, __rmul__(heap, s, o))
Imul == \E s \in Ids, o \in Refs \cup Scalars : Do("__imul__", s, o, __imul__(heap, s, o))
Truediv == \E s \in Ids, o \in Refs \cup Scalars : Do("__truediv__", s, o, __truediv__(heap, s, o))
Rtruediv == \E s \in Ids, o \in Scalars : Do("__rtruediv__", s, o, __rtruediv__(heap, s, o))
Itruediv == \E s \in Ids, o \in Refs \cup Scalars : Do("__itruediv__", s, o, __itruediv__(heap, s, o))
Inverse == \E s \in Ids : Do("inverse", s, None, inverse(heap, s))
Neg == \E s \in Ids : Do("__neg__", s, None, __neg__(heap, s))
Log == \E s \in Ids : Do("log", s, None, log(heap, s))
Pow == \E s \in Ids, n \in Refs \cup Exponents : Do("pow", s, n, pow(heap, s, n))
Ipow == \E s \in Ids, o \in Refs \cup Exponents : Do("__ipow__", s, o, __ipow__(heap, s, o))
Eq == \E s \in Ids, o \in Refs \cup Scalars : Do("__eq__", s, o, __eq__(heap, s, o))

Next ==
    \/ Add \/ Radd \/ Iadd
    \/ Sub \/ Rsub \/ Isub
    \/ Mul \/ Rmul \/ Imul
    \/ Truediv \/ Rtruediv \/ Itruediv
    \/ Inverse \/ Neg \/ Log
    \/ Pow \/ Ipow \/ Eq

Spec == Init /\ [][Next]_vars

(***************************************************************************)
(* Properties of a single call (specification Spec).                       *)
(***************************************************************************)
\* the receiver and the Dual argument as they were before the call, and
\* the id of an object the call allocates
Recv == old[call.self]
Arg == old[call.other.id]
NewId == Len(old) + 1

\* the call returned a new Dual(real, dual) and changed nothing else
ReturnedNew(real, dual) ==
    /\ ~Raised(real) /\ ~Raised(dual)
    /\ ret = Ref(NewId)
    /\ heap = Append(old, [real |-> real, dual |-> dual])

\* the call raised exc and changed nothing
Failed(exc) == ret = Raise(exc) /\ heap = old

\* C1 (as claimed): x.pow(n) with an integer n raises ZeroDivisionError iff
\* a == 0 and n < 0, and in every other case returns a new dual number
\* (a^n, n*a^(n-1)*b).
C1_PowContract ==
    (call.op = "pow" /\ IsInt(call.other)) =>
        LET a == Recv.real
            b == Recv.dual
            n == call.other
        IN  IF a.n = 0 /\ n.n < 0
            THEN Failed("ZeroDivisionError")
            ELSE ReturnedNew(PyPow(a, n),
                             PyMul(PyMul(n, PyPow(a, PyInt(n.n - 1))), b))

\* C2 (as claimed): x **= e with e a dual number or not an int raises
\* TypeError and leaves the fields of x as they were.
C2_IpowRejects ==
    (call.op = "__ipow__" /\ (IsDual(call.other) \/ ~IsInt(call.other))) =>
        Failed("TypeError")

C5_MulContract ==
    /\ (call.op = "__mul__" /\ IsDual(call.other)) =>
           ReturnedNew(PyMul(Recv.real, Arg.real),
                       PyAdd(PyMul(Recv.real, Arg.dual), PyMul(Recv.dual, Arg.real)))
    /\ (call.op = "__mul__" /\ ~IsDual(call.other)) =>
           ReturnedNew(PyMul(call.other, Recv.real), PyMul(call.other, Recv.dual))
    /\ call.op = "__rmul__" =>
           /\ ReturnedNew(PyMul(call.other, Recv.real), PyMul(call.other, Recv.dual))
           /\ heap[ret.id] = LET m == __mul__(old, call.self, call.other)
                             IN  m.heap[m.ret.id]

\* Dual(2, 1) * Dual(3, 2) has returned Dual(6, 7)
C5_Witness ==
    /\ call.op = "__mul__" /\ IsDual(call.other)
    /\ Recv = [real |-> PyInt(2), dual |-> PyInt(1)]
    /\ Arg = [real |-> PyInt(3), dual |-> PyInt(2)]
    /\ ret.t = "ref"
    /\ heap[ret.id] = [real |-> PyInt(6), dual |-> PyInt(7)]

\* C7 (as claimed): log() on (a, b) fails iff a <= 0, and the failure is of
\* the domain-error kind, which is not the kind raised for an undefined
\* division (ZeroDivisionError) nor for a bad argument (TypeError); when
\* a > 0 it returns a new dual number with dual part b/a.
C7_LogDomainError ==
    call.op = "log" =>
        IF Recv.real.n <= 0
        THEN Raised(ret) /\ ret.exc \notin {"ZeroDivisionError", "TypeError"}
        ELSE ret = Ref(NewId) /\ heap[NewId].dual = PyTrueDiv(Recv.dual, Recv.real)

\* C7 (amended): log() on (a, b) fails iff a <= 0, whatever b is, and it
\* fails with ZeroDivisionError, the error of an undefined division; when
\* a > 0 it returns a new dual number with dual part b/a.
C7_LogContract ==
    call.op = "log" =>
        IF Recv.real.n <= 0
        THEN Failed("ZeroDivisionError")
        ELSE /\ ret = Ref(NewId)
             /\ Len(heap) = NewId
             /\ heap[NewId].dual = PyTrueDiv(Recv.dual, Recv.real)

\* Dual(0, 1).log() has raised
C7_Witness ==
    /\ call.op = "log"
    /\ Recv = [real |-> PyInt(0), dual |-> PyInt(1)]
    /\ Raised(ret)

\* C8: a call that fails leaves the fields of its receiver and of every
\* other dual number as they were before the call.
C8_FailureChangesNothing ==
    Raised(ret) => heap = old

\* an in-place division by a dual number with real part 0, and an in-place
\* power of 0, have failed
C8_Witness ==
    /\ Raised(ret)
    /\ \/ call.op = "__itruediv__" /\ IsDual(call.other) /\ Arg.real.n = 0
       \/ call.op = "__ipow__" /\ Recv.real.n = 0

\* C10: x == y for dual numbers is true iff the real parts are equal and
\* the dual parts are equal; x == s for a scalar s is true iff a == s and
\* b == 0, so a dual number with b # 0 equals no scalar.
C10_EqContract ==
    call.op = "__eq__" =>
        /\ ret.t = "bool"
        /\ heap = old
        /\ IsDual(call.other) =>
               (ret.b <=> /\ Frac(Recv.real.n, Recv.real.d) = Frac(Arg.real.n, Arg.real.d)
                          /\ Frac(Recv.dual.n, Recv.dual.d) = Frac(Arg.dual.n, Arg.dual.d))
        /\ ~IsDual(call.other) =>
               /\ ret.b <=> /\ Frac(Recv.real.n, Recv.real.d) = Frac(call.other.n, call.other.d)
                            /\ Recv.dual.n = 0
               /\ Recv.dual.n # 0 => ~ret.b

\* x == s has been evaluated for a scalar s equal to the real part of x,
\* whose dual part is not 0
C10_Witness ==
    /\ call.op = "__eq__" /\ ~IsDual(call.other)
    /\ PyEq(Recv.real, call.other)
    /\ Recv.dual.n # 0
    /\ ret = Bool(FALSE)

\* the call was an in-place operator applied to x with x itself as operand
Aliased(op) == call.op = op /\ call.other = Ref(call.self)

\* two separate copies of the receiver as it was before the call
TwoCopies == <<Recv, Recv>>

\* the receiver is now what the non-mutating call plain returned for the
\* two copies, and nothing else has changed
ReceiverBecame(plain) ==
    /\ ret = Ref(call.self)
    /\ plain.ret = Ref(3)
    /\ heap = [old EXCEPT ![call.self] = plain.heap[3]]

\* C12: x += x, x -= x, x *= x and x /= x (real part not 0) leave x equal
\* to what x + x, x - x, x * x and x / x return for two separate copies of
\* the old value: (a+a, b+b), (a-a, b-b), (a*a, a*b + b*a) and
\* (a/a, (b*a - a*b)/(a*a)).
C12_AliasedInPlace ==
    LET a == Recv.real
        b == Recv.dual
        x == heap[call.self]
    IN  /\ Aliased("__iadd__") =>
               /\ ReceiverBecame(__add__(TwoCopies, 1, Ref(2)))
               /\ x = [real |-> PyAdd(a, a), dual |-> PyAdd(b, b)]
        /\ Aliased("__isub__") =>
               /\ ReceiverBecame(__sub__(TwoCopies, 1, Ref(2)))
               /\ x = [real |-> PySub(a, a), dual |-> PySub(b, b)]
        /\ Aliased("__imul__") =>
               /\ ReceiverBecame(__mul__(TwoCopies, 1, Ref(2)))
               /\ x = [real |-> PyMul(a, a),
                       dual |-> PyAdd(PyMul(a, b), PyMul(b, a))]
        /\ (Aliased("__itruediv__") /\ a.n # 0) =>
               /\ ReceiverBecame(__truediv__(TwoCopies, 1, Ref(2)))
               /\ x = [real |-> PyTrueDiv(a, a),
                       dual |-> PyTrueDiv(PySub(PyMul(b, a), PyMul(a, b)),
                                          PyMul(a, a))]

\* x /= x has been executed for x = Dual(2, 1), and x is now Dual(1.0, 0.0)
C12_Witness ==
    /\ Aliased("__itruediv__")
    /\ Recv = [real |-> PyInt(2), dual |-> PyInt(1)]
    /\ heap[call.self] = [real |-> PyFloat(1, 1), dual |-> PyFloat(0, 1)]

(***************************************************************************)
(* In-place operators against their non-mutating counterparts              *)
(* (specification SpecSeq).  The program holds two dual numbers built from *)
(* the same values, x (object 1) and f (object 3), and applies a sequence  *)
(* of operators to both: the in-place operator to x, and then the          *)
(* non-mutating operator to f, whose result becomes the new f:             *)
(*     try: r = x.__iadd__(o)            try: f = f.__add__(o)             *)
(*     except: r = the exception         except: q = the exception         *)
(***************************************************************************)
SeqReals == {PyInt(0), PyInt(3), PyFloat(-3, 2)}
SeqDuals == {PyInt(1), PyFloat(1, 2)}
SeqScalars == {PyInt(0), PyFloat(1, 2)}
SeqExponents == {PyInt(-1), PyInt(0), PyInt(2)}
SeqObjects == {[real |-> a, dual |-> b] : a \in SeqReals, b \in SeqDuals}
SeqOperands == {[real |-> PyInt(0), dual |-> PyInt(1)],
                [real |-> PyInt(3), dual |-> PyFloat(1, 2)],
                [real |-> PyFloat(-3, 2), dual |-> PyInt(1)]}

InitSeq ==
    /\ heap \in {<<x, y, x>> : x \in SeqObjects, y \in SeqOperands}
    /\ old = heap
    /\ call = [op |-> "none", self |-> 0, other |-> None]
    /\ ret = None
    /\ pc = "inplace"
    /\ locals = [x |-> Ref(1), y |-> Ref(2), f |-> Ref(3), q |-> None]
    /\ steps = 0

\* the in-place call on x, whose outcome is out
SeqInplace(op, other, out) ==
    /\ pc = "inplace"
    /\ steps < MaxSteps
    /\ old' = heap
    /\ call' = [op |-> op, self |-> locals.x.id, other |-> other]
    /\ heap' = out.heap
    /\ ret' = out.ret
    /\ pc' = "plain"
    /\ UNCHANGED <<locals, steps>>

\* the non-mutating call on f that corresponds to the in-place call op,
\* whose outcome is out
SeqPlain(op, out) ==
    /\ pc = "plain"
    /\ call.op = op
    /\ heap' = out.heap
    /\ locals' = [locals EXCEPT !.f = IF Raised(out.ret) THEN @ ELSE out.ret,
                                !.q = out.ret]
    /\ steps' = steps + 1
    /\ pc' = "inplace"
    /\ UNCHANGED <<old, call, ret>>

SeqIadd ==
    \E o \in {locals.y} \cup SeqScalars :
        SeqInplace("__iadd__", o, __iadd__(heap, locals.x.id, o))
SeqAdd == SeqPlain("__iadd__", __add__(heap, locals.f.id, call.other))

SeqIsub ==
    \E o \in {locals.y} \cup SeqScalars :
        SeqInplace("__isub__", o, __isub__(heap, locals.x.id, o))
SeqSub == SeqPlain("__isub__", __sub__(heap, locals.f.id, call.other))

SeqImul ==
    \E o \in {locals.y} \cup SeqScalars :
        SeqInplace("__imul__", o, __imul__(heap, locals.x.id, o))
SeqMul == SeqPlain("__imul__", __mul__(heap, locals.f.id, call.other))

SeqItruediv ==
    \E o \in {locals.y} \cup SeqScalars :
        SeqInplace("__itruediv__", o, __itruediv__(heap, locals.x.id, o))
SeqTruediv == SeqPlain("__itruediv__", __truediv__(heap, locals.f.id, call.other))

SeqIpow ==
    \E n \in SeqExponents :
        SeqInplace("__ipow__", n, __ipow__(heap, locals.x.id, n))
SeqPow == SeqPlain("__ipow__", pow(heap, locals.f.id, call.other))

NextSeq ==
    \/ SeqIadd \/ SeqAdd
    \/ SeqIsub \/ SeqSub
    \/ SeqImul \/ SeqMul
    \/ SeqItruediv \/ SeqTruediv
    \/ SeqIpow \/ SeqPow

SpecSeq == InitSeq /\ [][NextSeq]_vars

\* C3: after every step of a sequence of in-place operators applied to x
\* and of the corresponding non-mutating operators applied to f, x and f
\* have the same (real, dual); a step fails for x exactly when it fails
\* for f; and a successful in-place step returns x itself.
C3_InPlaceMatchesPlain ==
    pc = "inplace" =>
        /\ heap[locals.x.id] = heap[locals.f.id]
        /\ Raised(ret) <=> Raised(locals.q)
        /\ (call.op # "none" /\ ~Raised(ret)) => ret = locals.x

\* two steps have been made, the last one an in-place multiplication by the
\* dual number y that changed both fields of x
C3_Witness ==
    /\ pc = "inplace"
    /\ steps >= 2
    /\ call.op = "__imul__" /\ IsDual(call.other)
    /\ ret = locals.x
    /\ heap[1].real # old[1].real
    /\ heap[1].dual # old[1].dual

(***************************************************************************)
(* The documented example (specification SpecPoly):                        *)
(*     x = Dual(a, 1)                                                      *)
(*     y = x * x + 3 * x + 5                                               *)
(* evaluated as Python evaluates it: t1 = x.__mul__(x),                    *)
(* t2 = x.__rmul__(3), t3 = t1.__add__(t2), y = t3.__add__(5).             *)
(***************************************************************************)
PolyVals ==
    {PyInt(i) : i \in -3 .. 7}
        \cup {PyFloat(k, 4) : k \in {-6, -2, 0, 1, 2, 3, 5, 6, 7, 8, 10, 14}}

InitPoly ==
    /\ heap \in {<<[real |-> a, dual |-> PyInt(1)]>> : a \in PolyVals}
    /\ old = heap
    /\ call = [op |-> "none", self |-> 0, other |-> None]
    /\ ret = None
    /\ pc = "square"
    /\ locals = [x |-> Ref(1), t1 |-> None, t2 |-> None, t3 |-> None, y |-> None]
    /\ steps = 0

\* one call of the expression, whose outcome is out
PolyCall(op, self, other, out) ==
    /\ old' = heap
    /\ call' = [op |-> op, self |-> self, other |-> other]
    /\ heap' = out.heap
    /\ ret' = out.ret
    /\ steps' = steps + 1

PolySquare ==
    /\ pc = "square"
    /\ LET out == __mul__(heap, locals.x.id, locals.x)
       IN  /\ PolyCall("__mul__", locals.x.id, locals.x, out)
           /\ locals' = [locals EXCEPT !.t1 = out.ret]
    /\ pc' = "scale"

PolyScale ==
    /\ pc = "scale"
    /\ LET out == __rmul__(heap, locals.x.id, PyInt(3))
       IN  /\ PolyCall("__rmul__", locals.x.id, PyInt(3), out)
           /\ locals' = [locals EXCEPT !.t2 = out.ret]
    /\ pc' = "sum"

PolySum ==
    /\ pc = "sum"
    /\ LET out == __add__(heap, locals.t1.id, locals.t2)
       IN  /\ PolyCall("__add__", locals.t1.id, locals.t2, out)
           /\ locals' = [locals EXCEPT !.t3 = out.ret]
    /\ pc' = "const"

PolyConst ==
    /\ pc = "const"
    /\ LET out == __add__(heap, locals.t3.id, PyInt(5))
       IN  /\ PolyCall("__add__", locals.t3.id, PyInt(5), out)
           /\ locals' = [locals EXCEPT !.y = out.ret]
    /\ pc' = "evaluated"

NextPoly == PolySquare \/ PolyScale \/ PolySum \/ PolyConst

SpecPoly == InitPoly /\ [][NextPoly]_vars

\* C6: f(x) = x*x + 3*x + 5 evaluated at x = Dual(a, 1) has real part
\* a^2 + 3a + 5 and dual part 2a + 3, each operation being Python's; for
\* a = 2 the real part is 15 and the dual part 7.
C6_PolynomialDerivative ==
    pc = "evaluated" =>
        LET a == heap[locals.x.id].real
            y == heap[locals.y.id]
        IN  /\ y.real = PyAdd(PyAdd(PyPow(a, PyInt(2)), PyMul(PyInt(3), a)), PyInt(5))
            /\ y.dual = PyAdd(PyMul(PyInt(2), a), PyInt(3))
            /\ a = PyInt(2) => y = [real |-> PyInt(15), dual |-> PyInt(7)]

\* the example has been evaluated at x = Dual(2, 1) and has given (15, 7)
C6_Witness ==
    /\ pc = "evaluated"
    /\ heap[locals.x.id] = [real |-> PyInt(2), dual |-> PyInt(1)]
    /\ heap[locals.y.id] = [real |-> PyInt(15), dual |-> PyInt(7)]

(***************************************************************************)
(* The inverse (specification SpecInv):                                    *)
(*     x = Dual(a, b)                                                      *)
(*     try: inv = x.inverse()       except: inv = the exception            *)
(*     try: rdiv = 1 / x            except: rdiv = the exception           *)
(*     prod = x * inv               (when inverse() has returned)          *)
(***************************************************************************)
InvDuals == DualVals \cup {PyInt(3), PyFloat(-3, 2)}

InitInv ==
    /\ heap \in {<<[real |-> a, dual |-> b]>> : a \in PolyVals, b \in InvDuals}
    /\ old = heap
    /\ call = [op |-> "none", self |-> 0, other |-> None]
    /\ ret = None
    /\ pc = "inverse"
    /\ locals = [x |-> Ref(1), inv |-> None, rdiv |-> None, prod |-> None]
    /\ steps = 0

InvInverse ==
    /\ pc = "inverse"
    /\ LET out == inverse(heap, locals.x.id)
       IN  /\ PolyCall("inverse", locals.x.id, None, out)
           /\ locals' = [locals EXCEPT !.inv = out.ret]
    /\ pc' = "rdiv"

InvRtruediv ==
    /\ pc = "rdiv"
    /\ LET out == __rtruediv__(heap, locals.x.id, PyInt(1))
       IN  /\ PolyCall("__rtruediv__", locals.x.id, PyInt(1), out)
           /\ locals' = [locals EXCEPT !.rdiv = out.ret]
    /\ pc' = IF Raised(locals.inv) THEN "finished" ELSE "mul"

InvMul ==
    /\ pc = "mul"
    /\ LET out == __mul__(heap, locals.x.id, locals.inv)
       IN  /\ PolyCall("__mul__", locals.x.id, locals.inv, out)
           /\ locals' = [locals EXCEPT !.prod = out.ret]
    /\ pc' = "finished"

NextInv == InvInverse \/ InvRtruediv \/ InvMul

SpecInv == InitInv /\ [][NextInv]_vars

\* inverse() fails with ZeroDivisionError iff a == 0, and what it returns
\* equals what 1 / x returns
InverseIsReflectedDivision ==
    LET a == heap[locals.x.id].real
    IN  /\ pc # "inverse" =>
               IF a.n = 0 THEN locals.inv = Raise("ZeroDivisionError")
                          ELSE locals.inv.t = "ref"
        /\ pc = "finished" =>
               IF a.n = 0 THEN locals.rdiv = locals.inv
                          ELSE /\ locals.rdiv.t = "ref"
                               /\ locals.rdiv # locals.inv
                               /\ heap[locals.rdiv.id] = heap[locals.inv.id]

\* C9 (as claimed): inverse() fails with ZeroDivisionError iff a == 0; for
\* a # 0, x * x.inverse() has real part 1 and dual part 0, and x.inverse()
\* equals 1 / x.
C9_InverseExact ==
    /\ InverseIsReflectedDivision
    /\ (pc = "finished" /\ locals.prod.t = "ref") =>
           /\ PyEq(heap[locals.prod.id].real, PyInt(1))
           /\ PyEq(heap[locals.prod.id].dual, PyInt(0))

\* C9 (amended): inverse() fails with ZeroDivisionError iff a == 0; for
\* a # 0, x.inverse() equals 1 / x, and x * x.inverse() has real part 1
\* and dual part 0 up to rounding: with u = 2^-Prec the unit roundoff,
\* |real - 1| <= 4u and |dual| <= 8u * |b/a|.
C9_InverseWithinRounding ==
    /\ InverseIsReflectedDivision
    /\ (pc = "finished" /\ locals.prod.t = "ref") =>
           LET a == heap[locals.x.id].real
               b == heap[locals.x.id].dual
               r == heap[locals.prod.id].real
               d == heap[locals.prod.id].dual
           IN  /\ Abs(r.n - r.d) * IPow(2, Prec) <= 4 * r.d
               /\ Abs(d.n) * Abs(a.n) * b.d * IPow(2, Prec)
                      <= 8 * Abs(b.n) * d.d * a.d

\* x * x.inverse() has been computed for x = Dual(3, 1), and 1 / x too
C9_Witness ==
    /\ pc = "finished"
    /\ heap[locals.x.id] = [real |-> PyInt(3), dual |-> PyInt(1)]
    /\ locals.prod.t = "ref"
    /\ locals.rdiv.t = "ref"

(***************************************************************************)
(* The laws of addition (specification SpecAdd):                           *)
(*     x = Dual(a1, b1); y = Dual(a2, b2); z = Dual(a3, b3)                *)
(*     xy = x + y;  l = xy + z;  yz = y + z;  r = x + yz;  assoc = l == r  *)
(*     yx = y + x;  comm = xy == yx                                        *)
(*     sx = s + x;  xs = x + s;  scal = sx == xs                           *)
(*     nx = -x;     zero = x + nx                                          *)
(***************************************************************************)
AddReals == {PyInt(1), PyInt(3), PyFloat(1, 4), PyFloat(7, 4), PyFloat(-3, 2)}
AddDuals == {PyInt(1), PyFloat(1, 2)}
AddScalars == {PyInt(2), PyFloat(5, 4)}
AddObjects == {[real |-> a, dual |-> b] : a \in AddReals, b \in AddDuals}

InitAdd ==
    /\ heap \in {<<x, y, z>> : x \in AddObjects, y \in AddObjects, z \in AddObjects}
    /\ old = heap
    /\ call = [op |-> "none", self |-> 0, other |-> None]
    /\ ret = None
    /\ pc = "xy"
    /\ \E s \in AddScalars :
           locals = [x |-> Ref(1), y |-> Ref(2), z |-> Ref(3), s |-> s,
                     xy |-> None, l |-> None, yz |-> None, r |-> None,
                     assoc |-> None, yx |-> None, comm |-> None,
                     sx |-> None, xs |-> None, scal |-> None,
                     nx |-> None, zero |-> None]
    /\ steps = 0

AddXY ==
    /\ pc = "xy"
    /\ LET out == __add__(heap, locals.x.id, locals.y)
       IN  /\ PolyCall("__add__", locals.x.id, locals.y, out)
           /\ locals' = [locals EXCEPT !.xy = out.ret]
    /\ pc' = "l"

AddL ==
    /\ pc = "l"
    /\ LET out == __add__(heap, locals.xy.id, locals.z)
       IN  /\ PolyCall("__add__", locals.xy.id, locals.z, out)
           /\ locals' = [locals EXCEPT !.l = out.ret]
    /\ pc' = "yz"

AddYZ ==
    /\ pc = "yz"
    /\ LET out == __add__(heap, locals.y.id, locals.z)
       IN  /\ PolyCall("__add__", locals.y.id, locals.z, out)
           /\ locals' = [locals EXCEPT !.yz = out.ret]
    /\ pc' = "r"

AddR ==
    /\ pc = "r"
    /\ LET out == __add__(heap, locals.x.id, locals.yz)
       IN  /\ PolyCall("__add__", locals.x.id, locals.yz, out)
           /\ locals' = [locals EXCEPT !.r = out.ret]
    /\ pc' = "assoc"

AddEqAssoc ==
    /\ pc = "assoc"
    /\ LET out == __eq__(heap, locals.l.id, locals.r)
       IN  /\ PolyCall("__eq__", locals.l.id, locals.r, out)
           /\ locals' = [locals EXCEPT !.assoc = out.ret]
    /\ pc' = "yx"

AddYX ==
    /\ pc = "yx"
    /\ LET out == __add__(heap, locals.y.id, locals.x)
       IN  /\ PolyCall("__add__", locals.y.id, locals.x, out)
           /\ locals' = [locals EXCEPT !.yx = out.ret]
    /\ pc' = "comm"

AddEqComm ==
    /\ pc = "comm"
    /\ LET out == __eq__(heap, locals.xy.id, locals.yx)
       IN  /\ PolyCall("__eq__", locals.xy.id, locals.yx, out)
           /\ locals' = [locals EXCEPT !.comm = out.ret]
    /\ pc' = "sx"

AddSX ==
    /\ pc = "sx"
    /\ LET out == __radd__(heap, locals.x.id, locals.s)
       IN  /\ PolyCall("__radd__", locals.x.id, locals.s, out)
           /\ locals' = [locals EXCEPT !.sx = out.ret]
    /\ pc' = "xs"

AddXS ==
    /\ pc = "xs"
    /\ LET out == __add__(heap, locals.x.id, locals.s)
       IN  /\ PolyCall("__add__", locals.x.id, locals.s, out)
           /\ locals' = [locals EXCEPT !.xs = out.ret]
    /\ pc' = "scal"

AddEqScal ==
    /\ pc = "scal"
    /\ LET out == __eq__(heap, locals.sx.id, locals.xs)
       IN  /\ PolyCall("__eq__", locals.sx.id, locals.xs, out)
           /\ locals' = [locals EXCEPT !.scal = out.ret]
    /\ pc' = "nx"

AddNegX ==
    /\ pc = "nx"
    /\ LET out == __neg__(heap, locals.x.id)
       IN  /\ PolyCall("__neg__", locals.x.id, None, out)
           /\ locals' = [locals EXCEPT !.nx = out.ret]
    /\ pc' = "zero"

AddZero ==
    /\ pc = "zero"
    /\ LET out == __add__(heap, locals.x.id, locals.nx)
       IN  /\ PolyCall("__add__", locals.x.id, locals.nx, out)
           /\ locals' = [locals EXCEPT !.zero = out.ret]
    /\ pc' = "added"

NextAdd ==
    \/ AddXY \/ AddL \/ AddYZ \/ AddR \/ AddEqAssoc
    \/ AddYX \/ AddEqComm
    \/ AddSX \/ AddXS \/ AddEqScal
    \/ AddNegX \/ AddZero

SpecAdd == InitAdd /\ [][NextAdd]_vars

\* x + y == y + x; s + x == x + s, the scalar added to the real part only;
\* and x + (-x) has real part 0 and dual part 0
AdditionLawsButAssociativity ==
    pc = "added" =>
        /\ locals.comm = Bool(TRUE)
        /\ locals.scal = Bool(TRUE)
        /\ heap[locals.sx.id] =
               [real |-> PyAdd(locals.s, heap[locals.x.id].real),
                dual |-> heap[locals.x.id].dual]
        /\ heap[locals.zero.id].real.n = 0
        /\ heap[locals.zero.id].dual.n = 0

\* C11 (as claimed): (x+y)+z == x+(y+z) and x+y == y+x for all dual
\* numbers; s + x == x + s with the scalar added to the real part only;
\* and x + (-x) has real part 0 and dual part 0.
C11_AdditionExact ==
    /\ AdditionLawsButAssociativity
    /\ pc = "added" => locals.assoc = Bool(TRUE)

\* |p - q| <= 8u * (|a| + |b| + |c|) for the numbers p, q, a, b, c, with
\* u = 2^-Prec the unit roundoff
WithinRounding(p, q, a, b, c) ==
    LET den == a.d * b.d * c.d
        sum == Abs(a.n) * b.d * c.d + Abs(b.n) * a.d * c.d + Abs(c.n) * a.d * b.d
    IN  Abs(p.n * q.d - q.n * p.d) * den * IPow(2, Prec) <= 8 * sum * p.d * q.d

\* C11 (amended): x+y == y+x; s + x == x + s with the scalar added to the
\* real part only; x + (-x) has real part 0 and dual part 0; and
\* (x+y)+z == x+(y+z) when the parts of x, y and z are ints, while for
\* floats the two sides agree up to rounding: each part of the two sides
\* differs by at most 8u times the sum of the magnitudes of the three
\* parts added.
C11_AdditionUpToRounding ==
    /\ AdditionLawsButAssociativity
    /\ pc = "added" =>
           LET x == heap[locals.x.id]
               y == heap[locals.y.id]
               z == heap[locals.z.id]
               l == heap[locals.l.id]
               r == heap[locals.r.id]
           IN  /\ (\A o \in {x, y, z} : IsInt(o.real) /\ IsInt(o.dual))
                      => locals.assoc = Bool(TRUE)
               /\ (IsInt(x.real) /\ IsInt(y.real) /\ IsInt(z.real))
                      => l.real = r.real
               /\ WithinRounding(l.real, r.real, x.real, y.real, z.real)
               /\ WithinRounding(l.dual, r.dual, x.dual, y.dual, z.dual)

\* the laws have been evaluated for three dual numbers with float parts
\* for which the two groupings of the sum differ
C11_Witness ==
    /\ pc = "added"
    /\ locals.assoc = Bool(FALSE)
    /\ locals.comm = Bool(TRUE)
    /\ ~IsInt(heap[locals.x.id].real)


(***************************************************************************)
(* Which objects a call changes (specification SpecFrame): one call of     *)
(* any method of the class, the trigonometric and exponential ones         *)
(* included, on x = Dual(a, b) with y = Dual(c, d) as the other dual       *)
(* number.  A second calling program makes its call on an x whose real     *)
(* part is a float next to pi/2 or -pi/2, where tan fails; it calls only   *)
(* sin, cos, tan and exp.                                                  *)
(***************************************************************************)
\* floats whose cosine is within 1e-9 of 0
TrigReals == {PyFloat(52174, 33215), PyFloat(-52174, 33215)}
TrigObjects == {[real |-> a, dual |-> b] : a \in TrigReals, b \in DualVals}

\* x = Dual(a, b) with a next to pi/2 or -pi/2; y = Dual(c, d)
InitTrig ==
    /\ heap \in {<<x, y>> : x \in TrigObjects, y \in Objects}
    /\ old = heap
    /\ call = [op |-> "none", self |-> 0, other |-> None]
    /\ ret = None
    /\ pc = "trig"
    /\ locals = [x |-> Ref(1), y |-> Ref(2)]
    /\ steps = 0

InitFrame == Init \/ InitTrig

\* one call of a method without argument, whose outcome is out
DoMath(op, self, out) ==
    /\ pc \in {"start", "trig"}
    /\ old' = heap
    /\ call' = [op |-> op, self |-> self, other |-> None]
    /\ heap' = out.heap
    /\ ret' = out.ret
    /\ pc' = "done"
    /\ steps' = steps + 1
    /\ UNCHANGED locals

Sin == \E s \in Ids : DoMath("sin", s, sin(heap, s))
Cos == \E s \in Ids : DoMath("cos", s, cos(heap, s))
Tan == \E s \in Ids : DoMath("tan", s, tan(heap, s))
Exp == \E s \in Ids : DoMath("exp", s, exp(heap, s))

NextFrame ==
    \/ Add \/ Radd \/ Iadd
    \/ Sub \/ Rsub \/ Isub
    \/ Mul \/ Rmul \/ Imul
    \/ Truediv \/ Rtruediv \/ Itruediv
    \/ Inverse \/ Neg \/ Log
    \/ Pow \/ Ipow \/ Eq
    \/ Sin \/ Cos \/ Tan \/ Exp

SpecFrame == InitFrame /\ [][NextFrame]_vars

\* the methods that return a new object or a bool, and the in-place ones
NonMutating ==
    {"__add__", "__radd__", "__sub__", "__rsub__", "__mul__", "__rmul__",
     "__truediv__", "__rtruediv__", "__neg__", "inverse", "sin", "cos",
     "tan", "exp", "log", "pow", "__eq__"}
InPlace == {"__iadd__", "__isub__", "__imul__", "__itruediv__", "__ipow__"}

\* the objects that existed before the call, i excepted, have the fields
\* they had
UnchangedBut(i) ==
    /\ Len(heap) >= Len(old)
    /\ \A j \in DOMAIN old : j # i => heap[j] = old[j]

\* C13: a non-mutating operation leaves the real and dual fields of its
\* receiver and of a dual right operand (of every dual number that existed
\* before the call) unchanged, whether it succeeds or fails; an in-place
\* operator changes no object but its receiver, so never a right operand
\* that is a different object.
C13_Frame ==
    /\ call.op \in NonMutating \cup InPlace \cup {"none"}
    /\ call.op \in NonMutating => UnchangedBut(0)
    /\ call.op \in InPlace => UnchangedBut(call.self)

\* x.pow(2) on x = Dual(3, 1) has returned a new dual number Dual(9, 6),
\* and x is still Dual(3, 1)
C13_Witness ==
    /\ call.op = "pow"
    /\ call.other = PyInt(2)
    /\ Recv = [real |-> PyInt(3), dual |-> PyInt(1)]
    /\ ret = Ref(NewId)
    /\ heap[NewId] = [real |-> PyInt(9), dual |-> PyInt(6)]
    /\ heap[call.self] = Recv

====
